---- MODULE Spec2Model ----
(***************************************************************************)
(* Note graph maintenance and sync reconciliation of the zettelkasten      *)
(* client (src/src/hooks/useNotes.ts, the useSync hook) and of the worker  *)
(* that stores the notes (src/worker/src/index.ts).                        *)
(*                                                                         *)
(* Strings are sequences of one-character strings, so that the regular     *)
(* expressions of the code are computed character by character.            *)
(***************************************************************************)
EXTENDS Integers, Sequences, FiniteSets, TLC

\* ------------------------------------------------------------------ bounds
\* notes this client creates (ids "1".."MaxNotes")
MaxNotes == 2
\* updateNote / deleteNote / importNotes calls
MaxEdits == 1
\* the clock runs from 1 to MaxTime (milliseconds of Date.now())
MaxTime == 3
\* syncNotes calls started at any moment
MaxSyncs == 1
\* further syncNotes calls, each started after a call that completed with every
\* request answered and with no edit or remote write since that call began
MaxResyncs == 1
\* writes of another client to the remote store
MaxRemote == 1
\* logins the worker answers with a session
MaxLogins == 2
\* the lifetime of a session in clock ticks (24 hours in the worker)
SessionTtl == 2
\* the length of a search query
MaxQueryLen == 3
\* changes of the query of the search box
MaxChanges == 3
\* the clock of the search box runs from 0 to MaxBoxTime, in ticks of 100 ms
MaxBoxTime == 6
\* the delay of the search box's timer, in ticks (300 ms)
DebounceTicks == 3

\* ----------------------------------------------------------- characters
\* String.prototype.toLowerCase on one character
Lower(c) == IF c = "A" THEN "a" ELSE IF c = "B" THEN "b" ELSE c

toLowerCase(s) == [i \in 1..Len(s) |-> Lower(s[i])]

\* the characters of [a-zA-Z0-9_-] that occur in the model's strings
TagChars == {"A", "a", "B", "b", "t", "u"}

\* String.prototype.trim
RECURSIVE trimStart(_)
trimStart(s) == IF s # <<>> /\ Head(s) = " " THEN trimStart(Tail(s)) ELSE s

RECURSIVE trimEnd(_)
trimEnd(s) ==
  IF s # <<>> /\ s[Len(s)] = " " THEN trimEnd(SubSeq(s, 1, Len(s) - 1)) ELSE s

trim(s) == trimEnd(trimStart(s))

RECURSIVE Dedupe(_)
\* [...new Set(matches)]: first occurrences, in order
Dedupe(ss) ==
  IF ss = <<>> THEN <<>>
  ELSE LET init == Dedupe(SubSeq(ss, 1, Len(ss) - 1))
           x == ss[Len(ss)]
       IN IF \E i \in 1..Len(init) : init[i] = x THEN init ELSE Append(init, x)

\* the least index j >= i with s[j] = "]", or 0
FirstClose(s, i) ==
  LET js == {j \in i..Len(s) : s[j] = "]"}
  IN IF js = {} THEN 0 ELSE CHOOSE j \in js : \A k \in js : j <= k

RECURSIVE ScanLinks(_, _)
\* the matches of /\[\[([^\]]+)\]\]/g from index i on, each capture trimmed
ScanLinks(s, i) ==
  IF i + 4 > Len(s) THEN <<>>
  ELSE IF s[i] = "[" /\ s[i + 1] = "["
       THEN LET j == FirstClose(s, i + 2)
            IN IF j > i + 2 /\ j + 1 <= Len(s) /\ s[j + 1] = "]"
               THEN <<trim(SubSeq(s, i + 2, j - 1))>> \o ScanLinks(s, j + 2)
               ELSE ScanLinks(s, i + 1)
       ELSE ScanLinks(s, i + 1)

extractLinks(content) == Dedupe(ScanLinks(content, 1))

\* the last index of the run of tag characters that starts at i (i - 1 if none)
TagEnd(s, i) ==
  LET stops == {j \in i..Len(s) : s[j] \notin TagChars}
  IN IF stops = {} THEN Len(s)
     ELSE (CHOOSE j \in stops : \A k \in stops : j <= k) - 1

RECURSIVE ScanTags(_, _)
\* the matches of /#([a-zA-Z0-9_-]+)/g from index i on
ScanTags(s, i) ==
  IF i + 1 > Len(s) THEN <<>>
  ELSE IF s[i] = "#"
       THEN LET e == TagEnd(s, i + 1)
            IN IF e > i THEN <<SubSeq(s, i + 1, e)>> \o ScanTags(s, e + 1)
               ELSE ScanTags(s, i + 1)
       ELSE ScanTags(s, i + 1)

extractTags(content) == Dedupe(ScanTags(content, 1))

\* whether pat occurs in s at index i, compared case-insensitively
MatchAtCI(s, i, pat) ==
  /\ i + Len(pat) - 1 <= Len(s)
  /\ \A k \in 1..Len(pat) : Lower(s[i + k - 1]) = Lower(pat[k])

RECURSIVE ReplaceFromCI(_, _, _, _)
ReplaceFromCI(s, i, pat, rep) ==
  IF i > Len(s) THEN <<>>
  ELSE IF MatchAtCI(s, i, pat)
       THEN rep \o ReplaceFromCI(s, i + Len(pat), pat, rep)
       ELSE <<s[i]>> \o ReplaceFromCI(s, i + 1, pat, rep)

\* s.replace(new RegExp(escapeRegExp-quoted pat, 'gi'), rep), pat not empty
replaceAllCI(s, pat, rep) == ReplaceFromCI(s, 1, pat, rep)

\* the pattern text "[[" + title + "]]"
Marker(title) == <<"[", "[">> \o title \o <<"]", "]">>

RECURSIVE ReplaceClassFrom(_, _, _, _)
ReplaceClassFrom(s, i, cls, rep) ==
  IF i > Len(s) THEN <<>>
  ELSE IF i + 1 <= Len(s) /\ Lower(s[i]) \in cls /\ s[i + 1] = "]"
       THEN rep \o ReplaceClassFrom(s, i + 2, cls, rep)
       ELSE <<s[i]>> \o ReplaceClassFrom(s, i + 1, cls, rep)

\* The template literal `\[\[${title}\]\]` cooks \[ to [ and \] to ], so the
\* pattern handed to RegExp is [[title]]: the character class made of "[" and
\* the characters of the title, followed by one "]" (flags gi).
unlinkPattern(s, title) ==
  ReplaceClassFrom(s, 1, {"["} \cup {Lower(title[k]) : k \in 1..Len(title)}, title)

\* the same replace with the brackets escaped (\\[\\[ ... \\]\\])
unlinkEscaped(s, title) == replaceAllCI(s, Marker(title), title)

RECURSIVE joinComma(_)
\* Array.prototype.join(',')
joinComma(ss) ==
  IF ss = <<>> THEN <<>>
  ELSE IF Len(ss) = 1 THEN ss[1]
  ELSE ss[1] \o <<",">> \o joinComma(Tail(ss))

RECURSIVE splitComma(_)
\* String.prototype.split(',')
splitComma(s) ==
  LET cs == {j \in 1..Len(s) : s[j] = ","}
  IN IF cs = {} THEN <<s>>
     ELSE LET j == CHOOSE x \in cs : \A y \in cs : x <= y
          IN <<SubSeq(s, 1, j - 1)>> \o splitComma(SubSeq(s, j + 1, Len(s)))

\* r.tags ? r.tags.split(',').map(x => x.trim()) : []
parseList(s) ==
  IF s = <<>> THEN <<>>
  ELSE LET parts == splitComma(s) IN [i \in 1..Len(parts) |-> trim(parts[i])]

\* ------------------------------------------------------------ the inputs
\* an absent key of a Partial<Note> (and an absent column)
Undefined == <<"undefined">>

\* Map.prototype.get of a missing key
NoId == <<>>

\* crypto.randomUUID(): the n-th id this client draws
IdOf(n) == <<<<"1", "2", "3", "4", "5", "6", "7", "8", "9">>[n]>>

\* the id of a note that only another client or an import file brings
RemoteId == <<"r">>
ImportId == <<"i">>

Titles == {<<"A">>, <<"B">>}

Contents == { <<>>, <<"[", "[", "a", "]", "]", "#", "t">> }

\* the updates objects handed to updateNote: the editor always passes a title
\* and a content
Updates == { [title |-> t, content |-> c] : t \in Titles, c \in Contents }

\* the records of the JSON files handed to importNotes (tags and links are
\* comma-joined strings, the timestamps unix milliseconds)
ImportRecord(id, title, content, tags) ==
  [id |-> id, title |-> title, content |-> content, tags |-> tags,
   links |-> <<>>, createdAt |-> 1, updatedAt |-> 1]

ImportFiles ==
  { <<ImportRecord(ImportId, <<"B">>, <<"[", "[", "a", "]", "]", "#", "t">>, <<"t">>)>>,
    <<ImportRecord(IdOf(1), <<"B">>, <<"#", "u">>, <<"u">>),
      ImportRecord(ImportId, <<"A">>, <<"#", "u">>, <<"u">>)>> }

\* ------------------------------------------------------------- the state
VARIABLES
  notes,        \* useState<Note[]>: the local collection, in display order
  nextId,       \* how many ids crypto.randomUUID() has handed out, plus one
  now,          \* Date.now(), on the client and on the worker
  edits,        \* updateNote / deleteNote / importNotes calls so far
  server,       \* the rows of the worker's notes table, in rowid order
  remoteWrites, \* writes of another client so far
  syncPc,       \* where the syncNotes call in flight stands
  syncs,        \* syncNotes calls so far
  dirtyNotes,   \* syncNotes: the upload batch taken at the start of the call
  latestLocal,  \* syncNotes: the watermark, from the notes the call closed over
  uploadIdx,    \* syncNotes: the index of the next note of the batch to upload
  uploaded,     \* the ids of the batch whose upload request was stored
  remoteNotes,  \* syncNotes: the parsed download response
  quiet,        \* history: the syncNotes calls completed in a row with every
                \* request answered and no edit or remote write since the first began
  last,         \* history: the last operation that set the collection
  denied,       \* history: an upload of the useSync call in flight was answered 401
  sessions,     \* the worker's SESSIONS namespace: records of token and expiresAt
  nextToken,    \* how many session tokens crypto.randomUUID() has handed out, plus one
  ledger,       \* history: for each token a login issued, its expiry and
                \* whether a logout has named it since
  reply,        \* history: the last request to the worker and its answer
  search,       \* the last call of searchNotes: its arguments and its result
  box           \* the search box of SearchModal: its query, its timer, its
                \* clock, isSearching, the requests the worker has not answered,
                \* and the history of the changes and of the posts

vars ==
  <<notes, nextId, now, edits, server, remoteWrites, syncPc, syncs, dirtyNotes,
    latestLocal, uploadIdx, uploaded, remoteNotes, quiet, last, denied,
    sessions, nextToken, ledger, reply, search, box>>

\* the worker's sessions, the history of its requests and the state of the
\* search, which the notes hook never touches
auxVars == <<sessions, nextToken, ledger, reply, search, box>>

syncVars == <<syncPc, syncs, dirtyNotes, latestLocal, uploadIdx, uploaded, remoteNotes>>

\* what `last` records of an operation on the collection: its name, the id it
\* was called for, the collection before it and, for a merge, the batch, the
\* download and the ids whose upload was stored
Op(name, id, prev) ==
  [op |-> name, id |-> id, prev |-> prev, batch |-> <<>>, remote |-> <<>>, sent |-> {}]

\* ---------------------------------------------------- the note collection
\* prev.find(note => note.id === id): the index of the first such note, or 0
FindIndex(notesList, id) ==
  LET is == {i \in 1..Len(notesList) : notesList[i].id = id}
  IN IF is = {} THEN 0 ELSE CHOOSE i \in is : \A k \in is : i <= k

\* new Map(notesList.map(note => [note.title.toLowerCase(), note.id])).get(t):
\* the last note of that title wins
titleToIdMap(notesList, t) ==
  LET is == {i \in 1..Len(notesList) : toLowerCase(notesList[i].title) = t}
  IN IF is = {} THEN NoId
     ELSE notesList[CHOOSE i \in is : \A k \in is : k <= i].id

RECURSIVE FilterSeq(_, _)
\* Array.prototype.filter with the elements of `keep`
FilterSeq(ss, keep) ==
  IF ss = <<>> THEN <<>>
  ELSE IF Head(ss) \in keep THEN <<Head(ss)>> \o FilterSeq(Tail(ss), keep)
  ELSE FilterSeq(Tail(ss), keep)

\* linkedTitles.map(title => titleToIdMap.get(title.toLowerCase())).filter(Boolean)
resolveLinks(notesList, linkedTitles) ==
  LET ids == [k \in 1..Len(linkedTitles) |->
                titleToIdMap(notesList, toLowerCase(linkedTitles[k]))]
  IN FilterSeq(ids, {ids[k] : k \in 1..Len(ids)} \ {NoId})

\* variant: the links are left as they were stored
updateAllLinksStale(notesList) == notesList

\* variant: a title that resolves to no note is kept as an empty id
updateAllLinksKeepingUnresolved(notesList) ==
  [i \in 1..Len(notesList) |->
     [notesList[i] EXCEPT !.links =
        LET linkedTitles == extractLinks(notesList[i].content)
        IN [k \in 1..Len(linkedTitles) |->
              titleToIdMap(notesList, toLowerCase(linkedTitles[k]))]]]

updateAllLinks(notesList) ==
  [i \in 1..Len(notesList) |->
     [notesList[i] EXCEPT !.links = resolveLinks(notesList, extractLinks(notesList[i].content))]]

updateLinksAfterTitleChange(notesList, oldTitle, newTitle, time) ==
  [i \in 1..Len(notesList) |->
     LET note == notesList[i]
         updatedContent == replaceAllCI(note.content, Marker(oldTitle), Marker(newTitle))
     IN IF note.title = newTitle THEN note
        ELSE IF updatedContent # note.content
             THEN [note EXCEPT !.content = updatedContent, !.updatedAt = time]
             ELSE note]

\* the note that updateNote leaves in the place of the note it was called for
updatedNote(note, updates, time) ==
  [note EXCEPT
     !.title = IF updates.title = Undefined THEN @ ELSE updates.title,
     !.content = IF updates.content = Undefined THEN @ ELSE updates.content,
     !.updatedAt = time,
     !.tags = IF updates.content # Undefined /\ updates.content # <<>>
              THEN extractTags(updates.content) ELSE @,
     !.dirty = TRUE]

\* the updater that updateNote hands to setNotes
updateNoteResult(prev, id, updates, time) ==
  IF FindIndex(prev, id) = 0 THEN prev
  ELSE LET oldTitle == prev[FindIndex(prev, id)].title
           newTitle == updates.title
           titleChanged == newTitle # Undefined /\ newTitle # <<>> /\ newTitle # oldTitle
           newNotes == [i \in 1..Len(prev) |->
                          IF prev[i].id = id THEN updatedNote(prev[i], updates, time)
                          ELSE prev[i]]
       IN updateAllLinks(IF titleChanged
                         THEN updateLinksAfterTitleChange(newNotes, oldTitle, newTitle, time)
                         ELSE newNotes)

\* the content deleteNote leaves in a remaining note
unlink(content, title) == unlinkPattern(content, title)

\* variant: deleteNote without the early return for an id that is not there
deleteNoteUnguarded(prev, id) ==
  LET kept == FilterSeq(prev, {prev[i] : i \in {k \in 1..Len(prev) : prev[k].id # id}})
  IN updateAllLinks([i \in 1..Len(kept) |-> [kept[i] EXCEPT !.dirty = TRUE]])

\* the updater that deleteNote hands to setNotes
deleteNoteResult(prev, id) ==
  IF FindIndex(prev, id) = 0 THEN prev
  ELSE LET noteToDelete == prev[FindIndex(prev, id)]
           kept == FilterSeq(prev, {prev[i] : i \in {k \in 1..Len(prev) : prev[k].id # id}})
       IN updateAllLinks([i \in 1..Len(kept) |->
                            [kept[i] EXCEPT !.content = unlink(@, noteToDelete.title),
                                            !.dirty = TRUE]])

\* importedNotes.filter(...).map(...): the records importNotes accepts, as notes
validNotes(file) ==
  LET ok == {file[i] : i \in {k \in 1..Len(file) :
                /\ file[k].id # <<>>
                /\ file[k].title # <<>>
                /\ file[k].content # Undefined}}
      recs == FilterSeq(file, ok)
  IN [i \in 1..Len(recs) |->
        [id |-> recs[i].id, title |-> recs[i].title, content |-> recs[i].content,
         tags |-> parseList(recs[i].tags), links |-> parseList(recs[i].links),
         createdAt |-> recs[i].createdAt, updatedAt |-> recs[i].updatedAt,
         dirty |-> FALSE, deleted |-> FALSE]]

\* variant: a record of the file replaces the note of the same id
importNotesOverwriting(prev, file) ==
  LET valid == validNotes(file)
      validIds == {valid[i].id : i \in 1..Len(valid)}
      kept == FilterSeq(prev, {prev[i] : i \in {k \in 1..Len(prev) :
                                  prev[k].id \notin validIds}})
  IN updateAllLinks(kept \o valid)

\* the updater that importNotes hands to setNotes
importNotesResult(prev, file) ==
  LET existingIds == {prev[i].id : i \in 1..Len(prev)}
      valid == validNotes(file)
      newNotes == FilterSeq(valid, {valid[i] : i \in {k \in 1..Len(valid) :
                                       valid[k].id \notin existingIds}})
  IN updateAllLinks(prev \o newNotes)

\* ------------------------------------------------------- local operations
\* the ids a caller or a file may name: those handed out so far, and the two
\* foreign ones
KnownIds == {IdOf(n) : n \in 1..(nextId - 1)} \cup {RemoteId, ImportId}

\* `quiet` after an edit, a remote write or a failed request
Disturbed == [streak |-> 0, clean |-> FALSE]

\* no session, no request and no search yet
AuxInit ==
  /\ sessions = {}
  /\ nextToken = 1
  /\ ledger = {}
  /\ reply = [method |-> "none", token |-> NoId, time |-> 0, status |-> 0, w |-> 0,
              rows |-> <<>>]
  /\ search = [query |-> <<>>, mode |-> "none", results |-> <<>>]
  /\ box = [query |-> <<>>, ready |-> FALSE, t |-> 0, due |-> 0, armed |-> 0,
            times |-> <<>>, values |-> <<>>, posted |-> {},
            isSearching |-> FALSE, pending |-> 0]

Init ==
  /\ notes = <<>>
  /\ nextId = 1
  /\ now = 1
  /\ edits = 0
  /\ server = <<>>
  /\ remoteWrites = 0
  /\ syncPc = "idle"
  /\ syncs = 0
  /\ dirtyNotes = <<>>
  /\ latestLocal = 0
  /\ uploadIdx = 1
  /\ uploaded = {}
  /\ remoteNotes = <<>>
  /\ quiet = Disturbed
  /\ last = Op("init", NoId, <<>>)
  /\ denied = FALSE
  /\ AuxInit

\* a millisecond passes
Tick ==
  /\ now < MaxTime
  /\ now' = now + 1
  /\ UNCHANGED <<notes, nextId, edits, server, remoteWrites, syncVars, quiet, last>>
  /\ UNCHANGED <<denied, auxVars>>

\* variant: the new note is put at the end of the collection
createNoteAtEnd(title, content) ==
  /\ nextId <= MaxNotes
  /\ LET newNote == [id |-> IdOf(nextId), title |-> title, content |-> content,
                     tags |-> extractTags(content), createdAt |-> now,
                     updatedAt |-> now, links |-> <<>>, dirty |-> TRUE,
                     deleted |-> FALSE]
     IN notes' = updateAllLinks(notes \o <<newNote>>)
  /\ nextId' = nextId + 1
  /\ last' = Op("createNote", IdOf(nextId), notes)
  /\ quiet' = Disturbed
  /\ UNCHANGED <<now, edits, server, remoteWrites, syncVars>>
  /\ UNCHANGED <<denied, auxVars>>

createNote(title, content) ==
  /\ nextId <= MaxNotes
  /\ LET newNote == [id |-> IdOf(nextId), title |-> title, content |-> content,
                     tags |-> extractTags(content), createdAt |-> now,
                     updatedAt |-> now, links |-> <<>>, dirty |-> TRUE,
                     deleted |-> FALSE]
     IN notes' = updateAllLinks(<<newNote>> \o notes)
  /\ nextId' = nextId + 1
  /\ last' = Op("createNote", IdOf(nextId), notes)
  /\ quiet' = Disturbed
  /\ UNCHANGED <<now, edits, server, remoteWrites, syncVars>>
  /\ UNCHANGED <<denied, auxVars>>

updateNote(id, updates) ==
  /\ edits < MaxEdits
  /\ edits' = edits + 1
  /\ notes' = updateNoteResult(notes, id, updates, now)
  /\ last' = Op("updateNote", id, notes)
  /\ quiet' = Disturbed
  /\ UNCHANGED <<nextId, now, server, remoteWrites, syncVars>>
  /\ UNCHANGED <<denied, auxVars>>

deleteNote(id) ==
  /\ edits < MaxEdits
  /\ edits' = edits + 1
  /\ notes' = deleteNoteResult(notes, id)
  /\ last' = Op("deleteNote", id, notes)
  /\ quiet' = Disturbed
  /\ UNCHANGED <<nextId, now, server, remoteWrites, syncVars>>
  /\ UNCHANGED <<denied, auxVars>>

importNotes(file) ==
  /\ edits < MaxEdits
  /\ \A i \in 1..Len(file) : file[i].id \in KnownIds
  /\ edits' = edits + 1
  /\ notes' = importNotesResult(notes, file)
  /\ last' = Op("importNotes", NoId, notes)
  /\ quiet' = Disturbed
  /\ UNCHANGED <<nextId, now, server, remoteWrites, syncVars>>
  /\ UNCHANGED <<denied, auxVars>>

\* ------------------------------------------------------------ the worker
\* POST /api/notes: INSERT ... ON CONFLICT(id) DO UPDATE SET title, content,
\* tags, updated_at, links, deleted (created_at is kept on conflict)
upsert(rows, body, time) ==
  LET is == {i \in 1..Len(rows) : rows[i].id = body.id}
      row == [id |-> body.id, title |-> body.title, content |-> body.content,
              tags |-> body.tags, links |-> body.links, created_at |-> time,
              updated_at |-> time, deleted |-> body.deleted]
  IN IF is = {} THEN Append(rows, row)
     ELSE [i \in 1..Len(rows) |->
             IF i \in is THEN [row EXCEPT !.created_at = rows[i].created_at]
             ELSE rows[i]]

\* a NULL of the deleted column, which the column admits, and the null that
\* url.searchParams.get returns for a parameter the request does not carry
Null == -1

\* GET /api/notes?updated_after=W:
\*   SELECT * FROM notes WHERE deleted IS NULL OR deleted = 0 AND updated_at > W
\* AND binds tighter than OR; without the parameter (updatedAfter null) the
\* query stops after "deleted = 0"
selectNotes(rows, updatedAfter) ==
  FilterSeq(rows, {rows[i] : i \in {k \in 1..Len(rows) :
                      \/ rows[k].deleted = Null
                      \/ /\ rows[k].deleted = 0
                         /\ (updatedAfter = Null \/ rows[k].updated_at > updatedAfter)}})

\* -------------------------------------------------------------- syncNotes
\* JSON.stringify({id, title, content, tags: tags.join(','), links: links.join(',')})
uploadBody(note) ==
  [id |-> note.id, title |-> note.title, content |-> note.content,
   tags |-> joinComma(note.tags), links |-> joinComma(note.links), deleted |-> 0]

\* variant: the batch is the whole collection
dirtyFilterAll(notesList) == notesList

\* notes.filter(n => n.dirty)
dirtyFilter(notesList) ==
  FilterSeq(notesList, {notesList[i] : i \in {k \in 1..Len(notesList) : notesList[k].dirty}})

\* notes.length > 0 ? Math.max(...notes.map(n => n.updatedAt.getTime())) : 0
watermark(notesList) ==
  IF notesList = <<>> THEN 0
  ELSE LET ts == {notesList[i].updatedAt : i \in 1..Len(notesList)}
       IN CHOOSE t \in ts : \A u \in ts : u <= t

\* remoteNotesResult.map(r => ({...r, tags: ..., links: ...}))
parseRemote(rows) ==
  [i \in 1..Len(rows) |->
     [rows[i] EXCEPT !.tags = parseList(@), !.links = parseList(@)]]

\* byId.set(id, note): a Map keeps the place of a key it already holds
mapSet(byId, note) ==
  LET is == {i \in 1..Len(byId) : byId[i].id = note.id}
  IN IF is = {} THEN Append(byId, note)
     ELSE [i \in 1..Len(byId) |-> IF i \in is THEN note ELSE byId[i]]

RECURSIVE mapOf(_)
\* for (const n of prev) byId.set(n.id, n)
mapOf(prev) ==
  IF prev = <<>> THEN <<>>
  ELSE mapSet(mapOf(SubSeq(prev, 1, Len(prev) - 1)), prev[Len(prev)])

\* variant: a remote note of equal timestamp wins as well
remoteWinsOrTies(byId, r) ==
  \/ FindIndex(byId, r.id) = 0
  \/ r.updated_at >= byId[FindIndex(byId, r.id)].updatedAt

\* remoteUpdated > local.updatedAt, or no local note
remoteWins(byId, r) ==
  \/ FindIndex(byId, r.id) = 0
  \/ r.updated_at > byId[FindIndex(byId, r.id)].updatedAt

\* {...local, ...r, createdAt, updatedAt: remoteUpdated, dirty: false}
remoteNote(r) ==
  [id |-> r.id, title |-> r.title, content |-> r.content, tags |-> r.tags,
   links |-> r.links, createdAt |-> r.created_at, updatedAt |-> r.updated_at,
   dirty |-> FALSE, deleted |-> (r.deleted = 1)]

RECURSIVE mergeRemote(_, _)
\* for (const r of remoteNotes) { ... }
mergeRemote(byId, remote) ==
  IF remote = <<>> THEN byId
  ELSE LET m == mergeRemote(byId, SubSeq(remote, 1, Len(remote) - 1))
           r == remote[Len(remote)]
       IN IF remoteWins(m, r) THEN mapSet(m, remoteNote(r)) ELSE m

\* whether the merge clears the dirty flag of `merged` for the batch
acked(merged, batch) ==
  \E k \in 1..Len(batch) :
    batch[k].id = merged.id /\ merged.updatedAt = batch[k].updatedAt

\* variant: the batch is never acknowledged
clearUploadedNever(byId, batch) == byId

\* for (const n of dirtyNotes) { ... merged.dirty = false }
clearUploaded(byId, batch) ==
  [i \in 1..Len(byId) |->
     IF acked(byId[i], batch) THEN [byId[i] EXCEPT !.dirty = FALSE] ELSE byId[i]]

\* the updater that syncNotes hands to setNotes
mergeResult(prev, remote, batch) ==
  updateAllLinks(clearUploaded(mergeRemote(mapOf(prev), remote), batch))

\* syncNotes is called: the batch and the watermark come from the notes of
\* the render the call closes over
SyncStart ==
  /\ syncPc = "idle"
  /\ \/ syncs < MaxSyncs
     \/ syncs < MaxSyncs + MaxResyncs /\ quiet.streak >= 1
  /\ syncs' = syncs + 1
  /\ syncPc' = "upload"
  /\ dirtyNotes' = dirtyFilter(notes)
  /\ latestLocal' = watermark(notes)
  /\ uploadIdx' = 1
  /\ uploaded' = {}
  /\ remoteNotes' = <<>>
  /\ quiet' = [quiet EXCEPT !.clean = TRUE]
  /\ UNCHANGED <<notes, nextId, now, edits, server, remoteWrites, last>>
  /\ UNCHANGED <<denied, auxVars>>

\* the POST of the next note of the batch is stored and answered 201
UploadOk ==
  /\ syncPc = "upload"
  /\ uploadIdx <= Len(dirtyNotes)
  /\ server' = upsert(server, uploadBody(dirtyNotes[uploadIdx]), now)
  /\ uploaded' = uploaded \cup {dirtyNotes[uploadIdx].id}
  /\ uploadIdx' = uploadIdx + 1
  /\ UNCHANGED <<notes, nextId, now, edits, remoteWrites, syncPc, syncs,
                 dirtyNotes, latestLocal, remoteNotes, quiet, last>>
  /\ UNCHANGED <<denied, auxVars>>

\* variant: a failed upload ends the call
UploadFailAborting ==
  /\ syncPc = "upload"
  /\ uploadIdx <= Len(dirtyNotes)
  /\ uploadIdx' = uploadIdx + 1
  /\ syncPc' = "idle"
  /\ quiet' = Disturbed
  /\ UNCHANGED <<notes, nextId, now, edits, server, remoteWrites, syncs,
                 dirtyNotes, latestLocal, uploaded, remoteNotes, last>>
  /\ UNCHANGED <<denied, auxVars>>

\* the POST of the next note of the batch throws or is answered 401 / 500:
\* the row is not written
UploadFail ==
  /\ syncPc = "upload"
  /\ uploadIdx <= Len(dirtyNotes)
  /\ uploadIdx' = uploadIdx + 1
  /\ quiet' = Disturbed
  /\ UNCHANGED <<notes, nextId, now, edits, server, remoteWrites, syncPc, syncs,
                 dirtyNotes, latestLocal, uploaded, remoteNotes, last>>
  /\ UNCHANGED <<denied, auxVars>>

\* the GET is answered 200 with the rows newer than the watermark
DownloadOk ==
  /\ syncPc = "upload"
  /\ uploadIdx > Len(dirtyNotes)
  /\ remoteNotes' = parseRemote(selectNotes(server, latestLocal))
  /\ syncPc' = "merge"
  /\ UNCHANGED <<notes, nextId, now, edits, server, remoteWrites, syncs,
                 dirtyNotes, latestLocal, uploadIdx, uploaded, quiet, last>>
  /\ UNCHANGED <<denied, auxVars>>

\* variant: a failed download is merged as an empty download
DownloadFailMerging ==
  /\ syncPc = "upload"
  /\ uploadIdx > Len(dirtyNotes)
  /\ syncPc' = "idle"
  /\ quiet' = Disturbed
  /\ notes' = mergeResult(notes, <<>>, dirtyNotes)
  /\ last' = [Op("downloadFail", NoId, notes) EXCEPT !.sent = uploaded]
  /\ UNCHANGED <<nextId, now, edits, server, remoteWrites, syncs,
                 dirtyNotes, latestLocal, uploadIdx, uploaded, remoteNotes>>
  /\ UNCHANGED <<denied, auxVars>>

\* the GET throws, is answered non-2xx, or its body does not parse: alert, return
DownloadFail ==
  /\ syncPc = "upload"
  /\ uploadIdx > Len(dirtyNotes)
  /\ syncPc' = "idle"
  /\ quiet' = Disturbed
  /\ last' = [Op("downloadFail", NoId, notes) EXCEPT !.sent = uploaded]
  /\ UNCHANGED <<notes, nextId, now, edits, server, remoteWrites, syncs,
                 dirtyNotes, latestLocal, uploadIdx, uploaded, remoteNotes>>
  /\ UNCHANGED <<denied, auxVars>>

\* setNotes(prev => ...) of step 3 runs
Merge ==
  /\ syncPc = "merge"
  /\ notes' = mergeResult(notes, remoteNotes, dirtyNotes)
  /\ syncPc' = "idle"
  /\ quiet' = IF quiet.clean THEN [quiet EXCEPT !.streak = @ + 1] ELSE Disturbed
  /\ last' = [Op("merge", NoId, notes) EXCEPT
                !.batch = dirtyNotes, !.remote = remoteNotes, !.sent = uploaded]
  /\ UNCHANGED <<nextId, now, edits, server, remoteWrites, syncs, dirtyNotes,
                 latestLocal, uploadIdx, uploaded, remoteNotes>>
  /\ UNCHANGED <<denied, auxVars>>

\* another client of the same store POSTs a note of its own
RemoteWrite ==
  /\ remoteWrites < MaxRemote
  /\ remoteWrites' = remoteWrites + 1
  /\ server' = upsert(server,
                      [id |-> RemoteId, title |-> <<"B">>, content |-> <<"#", "u">>,
                       tags |-> <<"u">>, links |-> <<>>, deleted |-> 0], now)
  /\ quiet' = Disturbed
  /\ UNCHANGED <<notes, nextId, now, edits, syncVars, last>>
  /\ UNCHANGED <<denied, auxVars>>

Next ==
  \/ Tick
  \/ \E t \in Titles, c \in Contents : createNote(t, c)
  \/ \E id \in KnownIds, u \in Updates : updateNote(id, u)
  \/ \E id \in KnownIds : deleteNote(id)
  \/ \E f \in ImportFiles : importNotes(f)
  \/ SyncStart
  \/ UploadOk
  \/ UploadFail
  \/ DownloadOk
  \/ DownloadFail
  \/ Merge
  \/ RemoteWrite

Spec == Init /\ [][Next]_vars

\* ------------------------------------------- the useSync variant of the sync
\* the soft delete of the sync-enabled deployment: the note stays in the
\* collection as a tombstone, the other notes are not touched
softDeleteResult(prev, id) ==
  [i \in 1..Len(prev) |->
     IF prev[i].id = id THEN [prev[i] EXCEPT !.deleted = TRUE, !.dirty = TRUE]
     ELSE prev[i]]

softDeleteNote(id) ==
  /\ edits < MaxEdits
  /\ edits' = edits + 1
  /\ notes' = softDeleteResult(notes, id)
  /\ quiet' = Disturbed
  /\ last' = Op("softDeleteNote", id, notes)
  /\ UNCHANGED <<nextId, now, server, remoteWrites, syncVars>>
  /\ UNCHANGED <<denied, auxVars>>

\* notes.filter(n => n.dirty && !n.deleted)
dirtyFilterSync(notesList) ==
  FilterSeq(notesList, {notesList[i] : i \in {k \in 1..Len(notesList) :
                           notesList[k].dirty /\ ~ notesList[k].deleted}})

\* JSON.stringify({..., deleted: note.deleted ? 1 : 0})
uploadBodySync(note) ==
  [uploadBody(note) EXCEPT !.deleted = IF note.deleted THEN 1 ELSE 0]

\* Array.from(byId.values()).filter(n => !n.deleted)
sweepTombstones(notesList) ==
  FilterSeq(notesList, {notesList[i] : i \in {k \in 1..Len(notesList) :
                           ~ notesList[k].deleted}})

\* the updater that useSync.syncNotes hands to setNotes
mergeResultSync(prev, remote, batch) ==
  updateAllLinks(sweepTombstones(clearUploaded(mergeRemote(mapOf(prev), remote), batch)))

SyncStartS ==
  /\ syncPc = "idle"
  /\ syncs < MaxSyncs
  /\ syncs' = syncs + 1
  /\ syncPc' = "upload"
  /\ dirtyNotes' = dirtyFilterSync(notes)
  /\ latestLocal' = watermark(notes)
  /\ uploadIdx' = 1
  /\ uploaded' = {}
  /\ remoteNotes' = <<>>
  /\ quiet' = [quiet EXCEPT !.clean = TRUE]
  /\ UNCHANGED <<notes, nextId, now, edits, server, remoteWrites, last>>
  /\ denied' = FALSE
  /\ UNCHANGED auxVars

\* the POST of the next note of the batch is stored and answered 201
UploadOkS ==
  /\ syncPc = "upload"
  /\ uploadIdx <= Len(dirtyNotes)
  /\ server' = upsert(server, uploadBodySync(dirtyNotes[uploadIdx]), now)
  /\ uploaded' = uploaded \cup {dirtyNotes[uploadIdx].id}
  /\ uploadIdx' = uploadIdx + 1
  /\ UNCHANGED <<notes, nextId, now, edits, remoteWrites, syncPc, syncs,
                 dirtyNotes, latestLocal, remoteNotes, quiet, last>>
  /\ UNCHANGED <<denied, auxVars>>

\* the POST is answered 401: the throw of lines 223-226 is inside the try of
\* the loop body and is caught by its catch, which logs
Upload401S ==
  /\ syncPc = "upload"
  /\ uploadIdx <= Len(dirtyNotes)
  /\ uploadIdx' = uploadIdx + 1
  /\ quiet' = Disturbed
  /\ denied' = TRUE
  /\ UNCHANGED auxVars
  /\ UNCHANGED <<notes, nextId, now, edits, server, remoteWrites, syncPc, syncs,
                 dirtyNotes, latestLocal, uploaded, remoteNotes, last>>

\* the POST throws (network) or is answered another non-2xx status
UploadFailS ==
  /\ syncPc = "upload"
  /\ uploadIdx <= Len(dirtyNotes)
  /\ uploadIdx' = uploadIdx + 1
  /\ quiet' = Disturbed
  /\ UNCHANGED <<notes, nextId, now, edits, server, remoteWrites, syncPc, syncs,
                 dirtyNotes, latestLocal, uploaded, remoteNotes, last>>
  /\ UNCHANGED <<denied, auxVars>>

DownloadOkS ==
  /\ syncPc = "upload"
  /\ uploadIdx > Len(dirtyNotes)
  /\ remoteNotes' = parseRemote(selectNotes(server, latestLocal))
  /\ syncPc' = "merge"
  /\ UNCHANGED <<notes, nextId, now, edits, server, remoteWrites, syncs,
                 dirtyNotes, latestLocal, uploadIdx, uploaded, quiet, last>>
  /\ UNCHANGED <<denied, auxVars>>

\* the GET throws or is answered 401 or another non-2xx: alert, return
DownloadFailS ==
  /\ syncPc = "upload"
  /\ uploadIdx > Len(dirtyNotes)
  /\ syncPc' = "idle"
  /\ quiet' = Disturbed
  /\ last' = [Op("downloadFail", NoId, notes) EXCEPT !.sent = uploaded]
  /\ UNCHANGED <<notes, nextId, now, edits, server, remoteWrites, syncs,
                 dirtyNotes, latestLocal, uploadIdx, uploaded, remoteNotes>>
  /\ UNCHANGED <<denied, auxVars>>

MergeS ==
  /\ syncPc = "merge"
  /\ notes' = mergeResultSync(notes, remoteNotes, dirtyNotes)
  /\ syncPc' = "idle"
  /\ quiet' = IF quiet.clean THEN [quiet EXCEPT !.streak = @ + 1] ELSE Disturbed
  /\ last' = [Op("merge", NoId, notes) EXCEPT
                !.batch = dirtyNotes, !.remote = remoteNotes, !.sent = uploaded]
  /\ UNCHANGED <<nextId, now, edits, server, remoteWrites, syncs, dirtyNotes,
                 latestLocal, uploadIdx, uploaded, remoteNotes>>
  /\ UNCHANGED <<denied, auxVars>>

NextSync ==
  \/ Tick
  \/ \E t \in Titles, c \in Contents : createNote(t, c)
  \/ \E id \in KnownIds, u \in Updates : updateNote(id, u)
  \/ \E id \in KnownIds : softDeleteNote(id)
  \/ SyncStartS
  \/ UploadOkS
  \/ Upload401S
  \/ UploadFailS
  \/ DownloadOkS
  \/ DownloadFailS
  \/ MergeS
  \/ RemoteWrite

SpecSync == Init /\ [][NextSync]_vars

\* ------------------------------------------------- the worker's endpoints
\* crypto.randomUUID(): the n-th session token the worker issues
TokenOf(n) == <<"s">> \o IdOf(n)

\* a bearer token that no login issued
ForgedToken == <<"x">>

\* the Authorization headers of the requests: none, an issued token, a forged one
Bearers == {NoId, ForgedToken} \cup {TokenOf(n) : n \in 1..(nextToken - 1)}

\* env.SESSIONS.get(token): the expiresAt of the stored session, as a set
kvGet(kv, token) == {s.expiresAt : s \in {x \in kv : x.token = token}}

\* env.SESSIONS.delete(token)
kvDelete(kv, token) == {x \in kv : x.token # token}

\* variant: a stored session is accepted whatever its expiry
authorizedStored(kv, token, time) ==
  /\ token # NoId
  /\ kvGet(kv, token) # {}

\* the bearer check of the notes endpoints: the header is there, the session
\* is stored, and session.expiresAt > Date.now()
authorized(kv, token, time) ==
  /\ token # NoId
  /\ \E e \in kvGet(kv, token) : e > time

\* the sessions after the bearer check: an expired session is deleted
checkedSessions(kv, token, time) ==
  IF token # NoId /\ kvGet(kv, token) # {} /\ ~ authorized(kv, token, time)
  THEN kvDelete(kv, token) ELSE kv

\* the fields of `reply`: the request, when it was served, and the answer
Reply(method, token, status, w, rows) ==
  [method |-> method, token |-> token, time |-> now, status |-> status, w |-> w,
   rows |-> rows]

\* the variables of the client, which no request to the worker changes
clientVars ==
  <<notes, nextId, edits, remoteWrites, syncVars, quiet, last, denied, search, box>>

\* POST /api/login with the password: a session of SessionTtl is stored
LoginOk ==
  /\ nextToken <= MaxLogins
  /\ sessions' = sessions \cup {[token |-> TokenOf(nextToken), expiresAt |-> now + SessionTtl]}
  /\ ledger' = ledger \cup {[token |-> TokenOf(nextToken), expiresAt |-> now + SessionTtl,
                             loggedOut |-> FALSE]}
  /\ nextToken' = nextToken + 1
  /\ reply' = Reply("login", TokenOf(nextToken), 200, Null, <<>>)
  /\ UNCHANGED <<now, server, clientVars>>

\* POST /api/login with a wrong password: 401, nothing is stored
LoginBad ==
  /\ reply' = Reply("login", NoId, 401, Null, <<>>)
  /\ UNCHANGED <<now, server, sessions, nextToken, ledger, clientVars>>

\* POST /api/logout: with a bearer header the session of that token is
\* deleted and the answer is 200, whether or not there was one; without, 400
Logout(token) ==
  /\ sessions' = IF token = NoId THEN sessions ELSE kvDelete(sessions, token)
  /\ ledger' = {IF l.token = token THEN [l EXCEPT !.loggedOut = TRUE] ELSE l : l \in ledger}
  /\ reply' = Reply("logout", token, IF token = NoId THEN 400 ELSE 200, Null, <<>>)
  /\ UNCHANGED <<now, server, nextToken, clientVars>>

\* GET /api/notes[?updated_after=w]
GetNotes(token, w) ==
  /\ sessions' = checkedSessions(sessions, token, now)
  /\ reply' = IF authorized(sessions, token, now)
              THEN Reply("GET", token, 200, w, selectNotes(server, w))
              ELSE Reply("GET", token, 401, w, <<>>)
  /\ UNCHANGED <<now, server, nextToken, ledger, clientVars>>

\* POST /api/notes with the body of a note
PostNote(token, body) ==
  /\ sessions' = checkedSessions(sessions, token, now)
  /\ server' = IF authorized(sessions, token, now) THEN upsert(server, body, now)
               ELSE server
  /\ reply' = Reply("POST", token, IF authorized(sessions, token, now) THEN 201 ELSE 401,
                    Null, <<>>)
  /\ UNCHANGED <<now, nextToken, ledger, clientVars>>

\* the bodies of the POSTs: one note, live or tombstoned
Bodies ==
  {[id |-> IdOf(1), title |-> <<"A">>, content |-> <<>>, tags |-> <<>>,
    links |-> <<>>, deleted |-> d] : d \in {0, 1}}

\* a row written to the table by SQL, with no value for the deleted column
\* that migration 003 declares without NOT NULL
InsertNullRow ==
  /\ \A i \in 1..Len(server) : server[i].id # IdOf(2)
  /\ server' = Append(server,
       [id |-> IdOf(2), title |-> <<"B">>, content |-> <<>>, tags |-> <<>>,
        links |-> <<>>, created_at |-> now, updated_at |-> now, deleted |-> Null])
  /\ UNCHANGED <<now, sessions, nextToken, ledger, reply, clientVars>>

NextWorker ==
  \/ Tick
  \/ LoginOk
  \/ LoginBad
  \/ \E token \in Bearers : Logout(token)
  \/ \E token \in Bearers, w \in {Null} \cup (0..MaxTime) : GetNotes(token, w)
  \/ \E token \in Bearers, body \in Bodies : PostNote(token, body)
  \/ InsertNullRow

SpecWorker == Init /\ [][NextWorker]_vars

\* -------------------------------------------------------------- searchNotes
RECURSIVE splitWords(_)
\* s.split(/\s+/).filter(Boolean): the runs of characters between the blanks
splitWords(s) ==
  IF s = <<>> THEN <<>>
  ELSE IF Head(s) = " " THEN splitWords(Tail(s))
  ELSE LET blanks == {j \in 1..Len(s) : s[j] = " "}
           e == IF blanks = {} THEN Len(s) + 1
                ELSE CHOOSE j \in blanks : \A k \in blanks : j <= k
       IN <<SubSeq(s, 1, e - 1)>> \o splitWords(SubSeq(s, e, Len(s)))

\* query.toLowerCase().split(/\s+/).filter(Boolean)
queryWords(query) == splitWords(toLowerCase(query))

\* the characters of \w that occur in the model's strings
WordChars == {"A", "a", "B", "b", "t", "u"}

\* the indexes at which lowerText.indexOf(word, ...) finds the word
occurrences(text, word) == {i \in 1..Len(text) : MatchAtCI(text, i, word)}

\* lowerText.includes(word)
includes(text, word) == occurrences(text, word) # {}

\* \b before the character at index p (p = Len(text) + 1: at the end)
wordBoundary(text, p) ==
  (p > 1 /\ text[p - 1] \in WordChars) # (p <= Len(text) /\ text[p] \in WordChars)

\* new RegExp(`\\b${word}\\b`, 'i').test(text), for a word of letters
isExactWord(text, word) ==
  \E i \in occurrences(text, word) :
    wordBoundary(text, i) /\ wordBoundary(text, i + Len(word))

\* wordScore of a word that the text includes
wordScore(text, word) == IF isExactWord(text, word) THEN Len(word) * 2 ELSE Len(word)

RECURSIVE fieldScore(_, _)
\* the sum that queryWords.forEach builds in fieldScore
fieldScore(text, words) ==
  IF words = <<>> THEN 0
  ELSE (IF includes(text, Head(words)) THEN wordScore(text, Head(words)) ELSE 0)
       + fieldScore(text, Tail(words))

RECURSIVE pushed(_, _)
\* how many matches the forEach pushes for the text
pushed(text, words) ==
  IF words = <<>> THEN 0
  ELSE Cardinality(occurrences(text, Head(words))) + pushed(text, Tail(words))

\* calculateScore(text, field, multiplier): matchedWords is a Set, and its
\* size is compared with the length of queryWords
calculateScore(text, words, multiplier) ==
  LET matchedWords == {w \in {words[k] : k \in 1..Len(words)} : includes(text, w)}
      hasAllMatches == Cardinality(matchedWords) = Len(words) /\ Len(words) > 0
  IN IF hasAllMatches THEN fieldScore(text, words) * multiplier ELSE 0

RECURSIVE tagsScore(_, _)
tagsScore(tags, words) ==
  IF tags = <<>> THEN 0
  ELSE calculateScore(Head(tags), words, 2) + tagsScore(Tail(tags), words)

RECURSIVE tagsPushed(_, _)
tagsPushed(tags, words) ==
  IF tags = <<>> THEN 0 ELSE pushed(Head(tags), words) + tagsPushed(Tail(tags), words)

\* totalScore of a note
totalScore(note, words, searchMode) ==
  (IF searchMode \in {"all", "title"} THEN calculateScore(note.title, words, 3) ELSE 0)
  + (IF searchMode \in {"all", "content"} THEN calculateScore(note.content, words, 1) ELSE 0)
  + (IF searchMode \in {"all", "tags"} THEN tagsScore(note.tags, words) ELSE 0)

\* matches.length of a note
matchesLength(note, words, searchMode) ==
  (IF searchMode \in {"all", "title"} THEN pushed(note.title, words) ELSE 0)
  + (IF searchMode \in {"all", "content"} THEN pushed(note.content, words) ELSE 0)
  + (IF searchMode \in {"all", "tags"} THEN tagsPushed(note.tags, words) ELSE 0)

\* the comparator of results.sort: whether a must not come after b
sortsBefore(a, b) ==
  IF b.totalScore # a.totalScore THEN b.totalScore - a.totalScore < 0
  ELSE b.note.updatedAt - a.note.updatedAt < 0

RECURSIVE sortResults(_)
\* Array.prototype.sort, which is stable
sortResults(rs) ==
  IF rs = <<>> THEN <<>>
  ELSE LET init == sortResults(SubSeq(rs, 1, Len(rs) - 1))
           x == rs[Len(rs)]
           ahead == {k \in 1..Len(init) : ~ sortsBefore(x, init[k])}
           p == IF ahead = {} THEN 0 ELSE CHOOSE k \in ahead : \A j \in ahead : j <= k
       IN SubSeq(init, 1, p) \o <<x>> \o SubSeq(init, p + 1, Len(init))

searchNotes(query, notesList, searchMode) ==
  IF trim(query) = <<>> THEN <<>>
  ELSE LET words == queryWords(query)
           hit == {k \in 1..Len(notesList) :
                     /\ totalScore(notesList[k], words, searchMode) > 0
                     /\ matchesLength(notesList[k], words, searchMode) > 0}
           scored == [k \in 1..Len(notesList) |->
                        [note |-> notesList[k],
                         totalScore |-> totalScore(notesList[k], words, searchMode)]]
       IN sortResults(FilterSeq(scored, {scored[k] : k \in hit}))

\* the notes that are searched
SearchedNotes ==
  << [id |-> IdOf(1), title |-> <<"A">>, content |-> <<"b">>, tags |-> <<>>,
      updatedAt |-> 1],
     [id |-> IdOf(2), title |-> <<"b">>, content |-> <<"b", " ", "a">>,
      tags |-> << <<"a">>, <<"b">> >>, updatedAt |-> 2],
     [id |-> IdOf(3), title |-> <<"b", "a", "b">>, content |-> <<>>,
      tags |-> << <<"a", "b">> >>, updatedAt |-> 3] >>

\* the characters of the queries
QueryChars == {"a", "b", "A", " "}

\* the queries: every string of QueryChars up to MaxQueryLen characters
Queries ==
  UNION {[1..n -> QueryChars] : n \in 0..MaxQueryLen}

SearchModes == {"all", "title", "content", "tags"}

\* searchNotes(query, notes, searchMode) is called
Search(query, searchMode) ==
  /\ search' = [query |-> query, mode |-> searchMode,
                results |-> searchNotes(query, SearchedNotes, searchMode)]
  /\ UNCHANGED <<notes, nextId, now, edits, server, remoteWrites, syncVars, quiet,
                 last, denied, sessions, nextToken, ledger, reply, box>>

NextSearch == \E query \in Queries, searchMode \in SearchModes : Search(query, searchMode)

SpecSearch == Init /\ [][NextSearch]_vars

\* ---------------------------------------------- the search box of SearchModal
\* the values typed into the box: two that are too short once trimmed, two
\* that are searched
BoxQueries ==
  { <<"a", "b">>, <<"a", "b", " ">>, <<"a", "b", "c">>, <<"a", "b", "c", "d">> }

\* the rest of the page and of the worker, which the search box never touches
pageVars ==
  <<notes, nextId, now, edits, server, remoteWrites, syncVars, quiet, last, denied,
    sessions, nextToken, ledger, reply, search>>

\* the effect of [query, searchMode, workerReady, tagScope] runs on the box b,
\* after the cleanup of its last run (clearTimeout): no timer for a query of
\* less than 3 characters once trimmed or while the worker is not ready
\* (both return before setIsSearching), else setIsSearching(true) and a timer
\* of 300 ms that holds the query of this render
searchEffect(b) ==
  IF Len(trim(b.query)) < 3 \/ ~ b.ready
  THEN [b EXCEPT !.due = 0, !.armed = 0]
  ELSE [b EXCEPT !.due = b.t + DebounceTicks, !.armed = Len(b.times),
                 !.isSearching = TRUE]

\* variant: the cleanup does not clear a timer that is pending
ChangeQueryKeepingTimer(value) ==
  /\ Len(box.times) < MaxChanges
  /\ value # box.query
  /\ box' = IF box.due # 0
            THEN [box EXCEPT !.times = Append(@, box.t), !.values = Append(@, value)]
            ELSE searchEffect([box EXCEPT !.query = value,
                                          !.times = Append(@, box.t),
                                          !.values = Append(@, value)])
  /\ UNCHANGED pageVars

\* setQuery(value) with a new value
ChangeQuery(value) ==
  /\ Len(box.times) < MaxChanges
  /\ value # box.query
  /\ box' = searchEffect([box EXCEPT !.query = value,
                                     !.times = Append(@, box.t),
                                     !.values = Append(@, value)])
  /\ UNCHANGED pageVars

\* the worker answers 'ready' to the build: setWorkerReady(true)
WorkerReady ==
  /\ ~ box.ready
  /\ box' = searchEffect([box EXCEPT !.ready = TRUE])
  /\ UNCHANGED pageVars

\* the notes change: the worker is terminated with the requests it has not
\* answered and replaced, setWorkerReady(false)
WorkerReplaced ==
  /\ box.ready
  /\ box' = searchEffect([box EXCEPT !.ready = FALSE, !.pending = 0])
  /\ UNCHANGED pageVars

\* the search mode or the tag scope changes: the effect runs again
ScopeChanged ==
  /\ searchEffect(box) # box
  /\ box' = searchEffect(box)
  /\ UNCHANGED pageVars

\* the timer fires, at its time or later: postMessage({type: 'search', query})
TimerFires ==
  /\ box.due # 0
  /\ box.t >= box.due
  /\ box' = [box EXCEPT !.due = 0, !.armed = 0,
                        !.posted = @ \cup {[change |-> box.armed, query |-> box.query]},
                        !.pending = @ + 1]
  /\ UNCHANGED pageVars

\* the worker answers a search: the handler set when the timer fired gets the
\* 'results' message, setResults(...), setIsSearching(false)
WorkerResults ==
  /\ box.pending > 0
  /\ box' = [box EXCEPT !.pending = @ - 1, !.isSearching = FALSE]
  /\ UNCHANGED pageVars

\* 100 ms pass
BoxTick ==
  /\ box.t < MaxBoxTime
  /\ box' = [box EXCEPT !.t = @ + 1]
  /\ UNCHANGED pageVars

NextBox ==
  \/ \E value \in BoxQueries : ChangeQuery(value)
  \/ WorkerReady
  \/ WorkerReplaced
  \/ ScopeChanged
  \/ TimerFires
  \/ WorkerResults
  \/ BoxTick

SpecBox == Init /\ [][NextBox]_vars

\* ------------------------------------------- updateAllLinks on its own
\* the notes of the collections handed to updateAllLinks before their links
\* were ever computed or after their content changed: the tags and links they
\* carry are empty or those of an older content
StaleNotes(id) ==
  { [id |-> id, title |-> t, content |-> c, tags |-> g, createdAt |-> 1,
     updatedAt |-> 1, links |-> l, dirty |-> TRUE, deleted |-> FALSE] :
      t \in Titles,
      c \in { <<>>,
              <<"[", "[", "B", "]", "]", " ", "#", "t">>,
              <<"[", "[", "u", "]", "]", "[", "[", "a", "]", "]">> },
      g \in { <<>>, << <<"u">> >> },
      l \in { <<>>, <<RemoteId>>, <<IdOf(1)>> } }

\* the collections: one note, or two
StaleCollections ==
  { <<a>> : a \in StaleNotes(IdOf(1)) }
  \cup { <<a, b>> : a \in StaleNotes(IdOf(1)), b \in StaleNotes(IdOf(2)) }

InitLinks ==
  /\ notes \in StaleCollections
  /\ nextId = 3
  /\ now = 1
  /\ edits = 0
  /\ server = <<>>
  /\ remoteWrites = 0
  /\ syncPc = "idle"
  /\ syncs = 0
  /\ dirtyNotes = <<>>
  /\ latestLocal = 0
  /\ uploadIdx = 1
  /\ uploaded = {}
  /\ remoteNotes = <<>>
  /\ quiet = Disturbed
  /\ last = Op("init", NoId, <<>>)
  /\ denied = FALSE
  /\ AuxInit

\* updateAllLinks(notesList) is called on the collection
UpdateAllLinks ==
  /\ last.op = "init"
  /\ notes' = updateAllLinks(notes)
  /\ last' = Op("updateAllLinks", NoId, notes)
  /\ UNCHANGED <<nextId, now, edits, server, remoteWrites, syncVars, quiet>>
  /\ UNCHANGED <<denied, auxVars>>

NextLinks == UpdateAllLinks

SpecLinks == InitLinks /\ [][NextLinks]_vars

\* ------------------------------------------- imports of any JSON array
\* a file that lists one id twice, with different titles
DuplicateIdFiles ==
  { <<ImportRecord(ImportId, <<"A">>, <<"#", "u">>, <<"u">>),
      ImportRecord(ImportId, <<"B">>, <<>>, <<>>)>> }

\* the local operations, with the files above among the imports, and the sync
\* calls whose requests are all answered at once
NextImport ==
  \/ \E t \in Titles, c \in Contents : createNote(t, c)
  \/ \E id \in KnownIds, u \in Updates : updateNote(id, u)
  \/ \E id \in KnownIds : deleteNote(id)
  \/ \E f \in ImportFiles \cup DuplicateIdFiles : importNotes(f)
  \/ SyncStart
  \/ UploadOk
  \/ DownloadOk
  \/ Merge

SpecImport == Init /\ [][NextImport]_vars

\* ------------------------------------------- a sync after a deleteNote
\* syncNotes is called again, after a deleteNote that followed the first call
SyncStartAfterDelete ==
  /\ syncPc = "idle"
  /\ last.op = "deleteNote"
  /\ syncs >= MaxSyncs
  /\ syncs < MaxSyncs + MaxResyncs
  /\ syncs' = syncs + 1
  /\ syncPc' = "upload"
  /\ dirtyNotes' = dirtyFilter(notes)
  /\ latestLocal' = watermark(notes)
  /\ uploadIdx' = 1
  /\ uploaded' = {}
  /\ remoteNotes' = <<>>
  /\ quiet' = [quiet EXCEPT !.clean = TRUE]
  /\ UNCHANGED <<notes, nextId, now, edits, server, remoteWrites, last>>
  /\ UNCHANGED <<denied, auxVars>>

\* this client alone: it creates and deletes notes, and syncs before and after
NextDelete ==
  \/ Tick
  \/ \E t \in Titles, c \in Contents : createNote(t, c)
  \/ \E id \in KnownIds : deleteNote(id)
  \/ SyncStart
  \/ SyncStartAfterDelete
  \/ UploadOk
  \/ UploadFail
  \/ DownloadOk
  \/ DownloadFail
  \/ Merge

SpecDelete == Init /\ [][NextDelete]_vars

\* ------------------------------------------- exportNotes, then importNotes
\* JSON.parse(JSON.stringify(notes, null, 2)): the records of an exported
\* file. tags and links are arrays of strings (the `arrays` field tells them
\* from the comma-joined strings of the other files); a Date is written as
\* its ISO string and parseToDate reads the same millisecond back
exportNotes(notesList) ==
  [i \in 1..Len(notesList) |->
     [id |-> notesList[i].id, title |-> notesList[i].title,
      content |-> notesList[i].content, tags |-> notesList[i].tags,
      links |-> notesList[i].links, createdAt |-> notesList[i].createdAt,
      updatedAt |-> notesList[i].updatedAt, dirty |-> notesList[i].dirty,
      arrays |-> TRUE]]

\* whether the map over the accepted records throws: an array is truthy, empty
\* or not, and has no split method (note.links.split is not a function)
importThrows(file) ==
  \E k \in 1..Len(file) :
    /\ file[k].id # <<>> /\ file[k].title # <<>> /\ file[k].content # Undefined
    /\ file[k].arrays

\* the collection after reader.onload: the catch reports the error and
\* setNotes is never called; a file with no accepted record adds nothing
importExportedResult(prev, file) ==
  IF importThrows(file) THEN prev ELSE updateAllLinks(prev)

\* the collections another client exports: none, one note, or two
ExportedCollections ==
  { <<>> }
  \cup { <<a>> : a \in StaleNotes(RemoteId) }
  \cup { <<a, b>> : a \in StaleNotes(RemoteId), b \in StaleNotes(ImportId) }

\* importNotes of a file that exportNotes wrote; `last` keeps the file
importExported(file) ==
  /\ edits < MaxEdits
  /\ edits' = edits + 1
  /\ notes' = importExportedResult(notes, file)
  /\ last' = [Op(IF importThrows(file) THEN "importError" ELSE "importNotes", NoId, notes)
                EXCEPT !.remote = file]
  /\ quiet' = Disturbed
  /\ UNCHANGED <<nextId, now, server, remoteWrites, syncVars>>
  /\ UNCHANGED <<denied, auxVars>>

NextExport ==
  \/ \E t \in Titles, c \in Contents : createNote(t, c)
  \/ \E c \in ExportedCollections : importExported(exportNotes(c))

SpecExport == Init /\ [][NextExport]_vars

\* ---------------------------------------------------------------- claims
\* the ids of a collection
IdsOf(notesList) == {notesList[i].id : i \in 1..Len(notesList)}

\* the elements of a sequence
Range(ss) == {ss[i] : i \in 1..Len(ss)}

\* byId.get(id) after the local notes were put in the Map: the last note of
\* that id, as an index of the collection (0 if none)
LastIndex(notesList, id) ==
  LET is == {i \in 1..Len(notesList) : notesList[i].id = id}
  IN IF is = {} THEN 0 ELSE CHOOSE i \in is : \A k \in is : k <= i

\* whether the text of the marker [[title]] occurs in s, whatever the case
HasMarker(s, title) == \E i \in 1..Len(s) : MatchAtCI(s, i, Marker(title))

\* C1: after every operation, the links of every note are exactly the ids
\* that the titles of extractLinks(content), lower-cased, resolve to in the
\* title index of the current collection (the last note of a title wins,
\* unresolved titles are dropped), and each of them is the id of a note that
\* is in the collection.
C1_LinksResolved ==
  \A i \in 1..Len(notes) :
    LET titles == Range(extractLinks(notes[i].content))
        resolved ==
          {notes[j].id : j \in {k \in 1..Len(notes) :
              \E t \in titles :
                /\ toLowerCase(notes[k].title) = toLowerCase(t)
                /\ \A m \in (k + 1)..Len(notes) :
                     toLowerCase(notes[m].title) # toLowerCase(t)}}
    IN /\ Range(notes[i].links) = resolved
       /\ Range(notes[i].links) \subseteq IdsOf(notes)

\* a merge has added a remote note and left a note whose marker resolves
C1_Witness ==
  /\ last.op = "merge"
  /\ Len(notes) > Len(last.prev)
  /\ \E i \in 1..Len(notes) : notes[i].links # <<>>

\* C2: after every mutation of the collection, the tags of every note equal
\* extractTags of its content.
C2_TagsDerived ==
  \A i \in 1..Len(notes) : notes[i].tags = extractTags(notes[i].content)

\* C3: when the upload of a note of the batch failed and no strictly newer
\* remote copy of it was downloaded, the note is still dirty when the sync
\* call ends.
C3_FailedUploadStaysDirty ==
  last.op = "merge" =>
    \A k \in 1..Len(last.batch) :
      LET n == last.batch[k]
          li == LastIndex(last.prev, n.id)
      IN (/\ n.id \notin last.sent
          /\ li # 0
          /\ ~ \E j \in 1..Len(last.remote) :
                 /\ last.remote[j].id = n.id
                 /\ last.remote[j].updated_at > last.prev[li].updatedAt)
         => /\ FindIndex(notes, n.id) # 0
            /\ notes[FindIndex(notes, n.id)].dirty

\* C4: for each downloaded remote note, if its updated_at is strictly greater
\* than the updatedAt of the local note of the same id, or there is no such
\* local note, the merged note carries the remote fields and is clean; if it
\* is equal or less, the local note is left as it was (the loop over the
\* download leaves the whole record alone; of the whole merge only the
\* acknowledgement of the batch may clear its dirty flag, and the links are
\* recomputed).
C4_MergeByTimestamp ==
  /\ syncPc = "merge" =>
       \A j \in 1..Len(remoteNotes) :
         LET r == remoteNotes[j]
             li == LastIndex(notes, r.id)
             m == mergeRemote(mapOf(notes), remoteNotes)
         IN (li # 0 /\ r.updated_at <= notes[li].updatedAt)
            => m[FindIndex(m, r.id)] = notes[li]
  /\ last.op = "merge" =>
       \A j \in 1..Len(last.remote) :
         LET r == last.remote[j]
             li == LastIndex(last.prev, r.id)
             post == notes[FindIndex(notes, r.id)]
         IN /\ FindIndex(notes, r.id) # 0
            /\ IF li = 0 \/ r.updated_at > last.prev[li].updatedAt
               THEN /\ post.title = r.title
                    /\ post.content = r.content
                    /\ post.tags = r.tags
                    /\ post.createdAt = r.created_at
                    /\ post.updatedAt = r.updated_at
                    /\ post.dirty = FALSE
               ELSE /\ post.title = last.prev[li].title
                    /\ post.content = last.prev[li].content
                    /\ post.tags = last.prev[li].tags
                    /\ post.createdAt = last.prev[li].createdAt
                    /\ post.updatedAt = last.prev[li].updatedAt
                    /\ post.dirty # last.prev[li].dirty =>
                         \E k \in 1..Len(last.batch) :
                           /\ last.batch[k].id = r.id
                           /\ last.batch[k].updatedAt = last.prev[li].updatedAt

\* a merge met a remote note with the timestamp of its local note, and a
\* remote note that replaced or added a note
C4_Witness ==
  /\ last.op = "merge"
  /\ \E j \in 1..Len(last.remote) :
       LET li == LastIndex(last.prev, last.remote[j].id)
       IN li # 0 /\ last.remote[j].updated_at = last.prev[li].updatedAt
  /\ \E j \in 1..Len(last.remote) :
       LET li == LastIndex(last.prev, last.remote[j].id)
       IN li = 0 \/ last.remote[j].updated_at > last.prev[li].updatedAt

\* C5: when the download of a sync call fails, the call ends without a merge:
\* the collection is what it was before the download was attempted, and the
\* uploads already stored stay on the server.
C5_DownloadFailureKeepsCollection ==
  last.op = "downloadFail" =>
    /\ notes = last.prev
    /\ \A id \in last.sent : \E i \in 1..Len(server) : server[i].id = id

\* a download failed after an upload of the same call was stored, and the
\* note is still dirty
C5_Witness ==
  /\ last.op = "downloadFail"
  /\ syncPc = "idle"
  /\ \E i \in 1..Len(notes) : notes[i].id \in last.sent /\ notes[i].dirty

\* C6: a rename of note X from title A to a different, non-empty title B
\* rewrites every [[A]] marker (whatever its case) in every other note to
\* [[B]], and every other note that held such a marker then links to X.
C6_RenamePropagates ==
  (last.op = "updateNote" /\ FindIndex(last.prev, last.id) # 0) =>
    LET oldTitle == last.prev[FindIndex(last.prev, last.id)].title
        newTitle == notes[FindIndex(notes, last.id)].title
    IN (newTitle # oldTitle /\ newTitle # <<>>) =>
         \A i \in 1..Len(last.prev) :
           last.prev[i].id # last.id =>
             /\ notes[i].content =
                  replaceAllCI(last.prev[i].content, Marker(oldTitle), Marker(newTitle))
             /\ HasMarker(last.prev[i].content, oldTitle) =>
                  last.id \in Range(notes[i].links)

\* C7: after deleteNote removed the note titled T, every remaining note's
\* content is its former content with each [[T]] marker replaced by the text
\* T, and no [[T]] marker remains.
C7_DeleteUnlinks ==
  (last.op = "deleteNote" /\ FindIndex(last.prev, last.id) # 0) =>
    LET t == last.prev[FindIndex(last.prev, last.id)].title
        kept == FilterSeq(last.prev, {last.prev[i] : i \in {k \in 1..Len(last.prev) :
                                         last.prev[k].id # last.id}})
    IN /\ Len(notes) = Len(kept)
       /\ \A i \in 1..Len(kept) :
            /\ notes[i].content = unlinkEscaped(kept[i].content, t)
            /\ ~ HasMarker(notes[i].content, t)

\* C8: in the sync-enabled deployment a tombstone leaves the collection only
\* after it was written to the remote store: every tombstone a merge sweeps
\* has a row with the deleted flag set on the server.
C8_TombstoneSweptAfterUpload ==
  last.op = "merge" =>
    \A i \in 1..Len(last.prev) :
      (last.prev[i].deleted /\ last.prev[i].id \notin IdsOf(notes)) =>
        \E j \in 1..Len(server) :
          server[j].id = last.prev[i].id /\ server[j].deleted = 1

\* C9: a sync call that follows a completed sync call, with no local edit and
\* no remote write since the first began and with every request answered,
\* uploads nothing and leaves the collection as the first call left it; after
\* the first of them every note is clean.
C9_SyncIdempotent ==
  /\ (last.op = "merge" /\ quiet.streak >= 1) =>
       \A i \in 1..Len(notes) : ~ notes[i].dirty
  /\ (last.op = "merge" /\ quiet.streak >= 2) =>
       /\ last.batch = <<>>
       /\ notes = last.prev

\* the second of two such calls has ended, with notes of this client on the
\* server and a note of another client downloaded
C9_Witness ==
  /\ last.op = "merge"
  /\ quiet.streak = 2
  /\ \E i \in 1..Len(notes) : notes[i].id = IdOf(1)
  /\ \E i \in 1..Len(server) : server[i].id = IdOf(1)

\* C10: after a completed sync, a note of the batch whose updatedAt is still
\* the value it had when the batch was taken is clean, and a note of the batch
\* whose updatedAt a local edit changed during the sync is dirty.
C10_AckByTimestamp ==
  last.op = "merge" =>
    \A k \in 1..Len(last.batch) :
      LET n == last.batch[k]
          li == LastIndex(last.prev, n.id)
          post == notes[FindIndex(notes, n.id)]
      IN li # 0 =>
           /\ FindIndex(notes, n.id) # 0
           /\ last.prev[li].updatedAt = n.updatedAt => ~ post.dirty
           /\ last.prev[li].updatedAt # n.updatedAt => post.dirty


\* C11: a sync call sends an upsert request only for notes that are dirty when
\* the call starts, and one request at most for each of them: the batch taken
\* at the start holds dirty notes of the collection, each id once; the worker's
\* table is written by the call only for the next note of the batch, and the
\* position in the batch only moves forward by one.
C11_Step ==
  /\ (syncPc = "idle" /\ syncPc' = "upload") =>
       /\ uploadIdx' = 1
       /\ \A k \in 1..Len(dirtyNotes') :
            /\ dirtyNotes'[k] \in Range(notes)
            /\ dirtyNotes'[k].dirty
            /\ \A j \in 1..Len(dirtyNotes') : j # k => dirtyNotes'[j].id # dirtyNotes'[k].id
  /\ (syncPc # "idle" \/ syncPc' # "upload") =>
       /\ dirtyNotes' = dirtyNotes
       /\ uploadIdx' \in {uploadIdx, uploadIdx + 1}
  /\ (server' # server /\ remoteWrites' = remoteWrites) =>
       /\ syncPc = "upload"
       /\ uploadIdx <= Len(dirtyNotes)
       /\ uploadIdx' = uploadIdx + 1
       /\ \A i \in 1..Len(server') :
            (i > Len(server) \/ server'[i] # server[i]) =>
              server'[i].id = dirtyNotes[uploadIdx].id

C11_OnlyDirtyUploadedOnce == [][C11_Step]_vars

\* a call has uploaded a note while the collection held a clean note that was
\* not in its batch
C11_Witness ==
  /\ syncPc = "merge"
  /\ uploaded # {}
  /\ \E i \in 1..Len(notes) :
       /\ ~ notes[i].dirty
       /\ notes[i].id \notin IdsOf(dirtyNotes)
       /\ last.op = "importNotes"


\* C12: the createdAt of a note never changes: whatever operation last set
\* the collection (updateNote, a rename's propagation, deleteNote of another
\* note, importNotes, a sync merge), every note that was in the collection
\* before it and still is has the createdAt it had.
C12_CreatedAtKept ==
  \A i \in 1..Len(last.prev) : \A j \in 1..Len(notes) :
    notes[j].id = last.prev[i].id => notes[j].createdAt = last.prev[i].createdAt


\* C13: a 401 answer to an upload is fatal to the sync call: when a call in
\* which an upload was answered 401 has ended, the collection is what it was,
\* that is, the call either ended without a merge or its merge changed nothing.
C13_UnauthorizedIsFatal ==
  (denied /\ syncPc = "idle" /\ last.op = "merge") => notes = last.prev


\* C14: a failed upload does not stop the upload phase: while notes of the
\* batch are left, the only step the call takes is the attempt of the next
\* one (whatever became of the earlier attempts), the batch stays what it was,
\* and after the last attempt the call goes on to the download.
C14_Step ==
  /\ (syncPc = "upload" /\ uploadIdx <= Len(dirtyNotes)) =>
       /\ syncPc' = "upload"
       /\ dirtyNotes' = dirtyNotes
       /\ uploadIdx' \in {uploadIdx, uploadIdx + 1}
  /\ (syncPc = "upload" /\ uploadIdx > Len(dirtyNotes)) =>
       /\ uploadIdx' = uploadIdx
       /\ syncPc' \in {"upload", "merge", "idle"}
  /\ (syncPc = "upload" /\ syncPc' = "merge") => uploadIdx = Len(dirtyNotes) + 1

C14_UploadLoopContinues == [][C14_Step]_vars

\* the upload of the first note of a batch of two failed, the second was
\* stored, and the download was answered
C14_Witness ==
  /\ syncPc = "merge"
  /\ Len(dirtyNotes) = 2
  /\ dirtyNotes[1].id \notin uploaded
  /\ dirtyNotes[2].id \in uploaded


\* C15: GET /api/notes?updated_after=W answers with exactly the rows that are
\* not tombstoned (deleted NULL or 0) and whose updated_at is greater than W,
\* in the order of the table.
C15_Step ==
  (reply' # reply /\ reply'.method = "GET" /\ reply'.status = 200 /\ reply'.w # Null) =>
    reply'.rows =
      FilterSeq(server, {server[i] : i \in {k \in 1..Len(server) :
                            /\ server[k].deleted \in {Null, 0}
                            /\ server[k].updated_at > reply'.w}})

C18_Step ==
  (reply' # reply /\ reply'.method \in {"GET", "POST"}) =>
    LET served == reply'.status \in {200, 201}
        valid == \E l \in ledger :
                   /\ l.token = reply'.token
                   /\ ~ l.loggedOut
                   /\ l.expiresAt > now
    IN /\ served <=> valid
       /\ ~ served => /\ reply'.status = 401
                      /\ reply'.rows = <<>>
                      /\ server' = server

C16_UnknownIdIsNoOp ==
  (last.op \in {"updateNote", "deleteNote"} /\ FindIndex(last.prev, last.id) = 0) =>
    notes = last.prev

\* deleteNote was called with an id that is not there while the collection
\* held a clean note with a link
C16_Witness ==
  /\ last.op = "deleteNote"
  /\ FindIndex(last.prev, last.id) = 0
  /\ \E i \in 1..Len(notes) : ~ notes[i].dirty /\ notes[i].links # <<>>


\* C17: createNote(title, content) adds exactly one note, at the front of the
\* collection, with an id no note had, createdAt = updatedAt, the tags of
\* extractTags(content) and dirty set; the notes that were there follow in
\* their order with every field but links as it was.
C17_CreateAddsOneAtFront ==
  last.op = "createNote" =>
    /\ Len(notes) = Len(last.prev) + 1
    /\ notes[1].id = last.id
    /\ last.id \notin IdsOf(last.prev)
    /\ notes[1].createdAt = notes[1].updatedAt
    /\ notes[1].tags = extractTags(notes[1].content)
    /\ notes[1].dirty
    /\ \A i \in 1..Len(last.prev) :
         [notes[i + 1] EXCEPT !.links = last.prev[i].links] = last.prev[i]

\* createNote added a note whose title resolved the marker of a note that was
\* already there
C17_Witness ==
  /\ last.op = "createNote"
  /\ \E i \in 1..Len(last.prev) : notes[i + 1].links # last.prev[i].links


\* C19: searchNotes returns a note exactly when one field that the mode
\* permits (the title, the content, or one tag) contains every blank-delimited
\* token of the query, whatever the case; tokens matched only across
\* different fields do not count, and a blank query returns nothing.
C19_SearchAllTokensInOneField ==
  search.mode # "none" =>
    LET tokens == Range(queryWords(search.query))
        fields(note) ==
          (IF search.mode \in {"all", "title"} THEN {note.title} ELSE {})
          \cup (IF search.mode \in {"all", "content"} THEN {note.content} ELSE {})
          \cup (IF search.mode \in {"all", "tags"} THEN Range(note.tags) ELSE {})
        returned == {search.results[k].note.id : k \in 1..Len(search.results)}
    IN \A k \in 1..Len(SearchedNotes) :
         (SearchedNotes[k].id \in returned) <=>
           /\ tokens # {}
           /\ \E f \in fields(SearchedNotes[k]) : \A tok \in tokens : includes(f, tok)


\* C20: of a run of changes of the query that follow one another by less than
\* 300 ms only the last is posted to the search worker: a change that was
\* posted is the latest change, or the change after it came 300 ms or more
\* later; and what was posted is the value of that change.
C20_OnlyLastOfBurstPosted ==
  \A p \in box.posted :
    /\ p.change \in 1..Len(box.times)
    /\ p.query = box.values[p.change]
    /\ \/ p.change = Len(box.times)
       \/ box.times[p.change + 1] - box.times[p.change] >= DebounceTicks

\* three changes less than 300 ms apart, of which the first and the last
\* could be searched, and only the last was posted
C20_Witness ==
  /\ Len(box.times) = 3
  /\ box.times[2] - box.times[1] < DebounceTicks
  /\ box.times[3] - box.times[2] < DebounceTicks
  /\ box.times[2] > box.times[1]
  /\ Len(trim(box.values[1])) >= 3
  /\ {p.change : p \in box.posted} = {3}



\* C21: importNotes adds only records whose id no note of the collection has
\* and changes no note that was there: the notes that were there come first,
\* in their order, each with the title, content, tags, createdAt, updatedAt
\* and dirty flag it had (only links are recomputed), and every note after
\* them has an id that was not in the collection.
C21_ImportKeepsExisting ==
  last.op = "importNotes" =>
    /\ Len(notes) >= Len(last.prev)
    /\ \A i \in 1..Len(last.prev) :
         [notes[i] EXCEPT !.links = last.prev[i].links] = last.prev[i]
    /\ \A i \in (Len(last.prev) + 1)..Len(notes) : notes[i].id \notin IdsOf(last.prev)

\* a file that holds a record with the id of a note of the collection and a
\* record with a new id was imported: one note was added
C21_Witness ==
  /\ last.op = "importNotes"
  /\ IdOf(1) \in IdsOf(last.prev)
  /\ Len(notes) = Len(last.prev) + 1
  /\ notes[Len(notes)].id = ImportId
  /\ notes[Len(notes)].title = <<"A">>



C23_LocalChangeSetsDirty ==
  last.op \in {"updateNote", "deleteNote"} =>
    \A i \in 1..Len(last.prev) : \A j \in 1..Len(notes) :
      (/\ notes[j].id = last.prev[i].id
       /\ \/ notes[j].title # last.prev[i].title
          \/ notes[j].content # last.prev[i].content)
      => notes[j].dirty



\* C24: after any sequence of createNote, updateNote, deleteNote, importNotes
\* (a file that lists the same id twice included) and sync merges, no two
\* notes of the collection have the same id.
C24_IdsUnique ==
  \A i \in 1..Len(notes) : \A j \in 1..Len(notes) :
    notes[i].id = notes[j].id => i = j



\* C25: an edit made while a sync call is in flight is never lost: when the
\* call's merge has run, a note of the batch that the collection held with
\* another title, content or updatedAt than the snapshot that was uploaded
\* still has the edited title and content, and is dirty.
C25_EditDuringSyncKept ==
  last.op = "merge" =>
    \A k \in 1..Len(last.batch) :
      LET n == last.batch[k]
          li == LastIndex(last.prev, n.id)
          post == notes[FindIndex(notes, n.id)]
      IN (/\ li # 0
          /\ \/ last.prev[li].title # n.title
             \/ last.prev[li].content # n.content
             \/ last.prev[li].updatedAt # n.updatedAt)
         => /\ FindIndex(notes, n.id) # 0
            /\ post.title = last.prev[li].title
            /\ post.content = last.prev[li].content
            /\ post.dirty



\* C26: after a sync call in which every request was answered (and during
\* which nothing else wrote to the store or to the collection), every row of
\* the remote store that is not a tombstone is in the collection, with an
\* updatedAt that is not older than the row's updated_at.
C26_SyncBringsEveryRemoteNote ==
  (last.op = "merge" /\ quiet.streak >= 1) =>
    \A i \in 1..Len(server) :
      server[i].deleted # 1 =>
        \E j \in 1..Len(notes) :
          /\ notes[j].id = server[i].id
          /\ notes[j].updatedAt >= server[i].updated_at



\* C27: a note that deleteNote removed never comes back through a later sync
\* call of this client. Under SpecDelete every id handed out belongs to a note
\* this client created, and only deleteNote removes a note; so a created id
\* that the collection did not hold when the merge of a call started after
\* the deleteNote ran is not in the collection after that merge.
C27_DeletedStaysDeleted ==
  (last.op = "merge" /\ syncs > MaxSyncs) =>
    \A n \in 1..(nextId - 1) :
      IdOf(n) \notin IdsOf(last.prev) => IdOf(n) \notin IdsOf(notes)



\* C28: importing a file that exportNotes produced into a collection that
\* holds none of the exported ids reports no error and adds every exported
\* note, with the id, title, content and tags it was exported with.
C28_ExportImportRoundTrip ==
  (last.op \in {"importNotes", "importError"} /\ IdsOf(last.remote) \cap IdsOf(last.prev) = {}) =>
    /\ last.op = "importNotes"
    /\ \A k \in 1..Len(last.remote) :
         \E j \in 1..Len(notes) :
           /\ notes[j].id = last.remote[k].id
           /\ notes[j].title = last.remote[k].title
           /\ notes[j].content = last.remote[k].content
           /\ notes[j].tags = last.remote[k].tags



\* C29: deleteNote(id) leaves every remaining note whose content holds no
\* marker of the deleted title as it was in title, content, tags, updatedAt
\* and dirty.
C29_DeleteLeavesOthersAlone ==
  (last.op = "deleteNote" /\ FindIndex(last.prev, last.id) # 0) =>
    LET t == last.prev[FindIndex(last.prev, last.id)].title
    IN \A i \in 1..Len(last.prev) : \A j \in 1..Len(notes) :
         (/\ notes[j].id = last.prev[i].id
          /\ ~ HasMarker(last.prev[i].content, t))
         => /\ notes[j].title = last.prev[i].title
            /\ notes[j].content = last.prev[i].content
            /\ notes[j].tags = last.prev[i].tags
            /\ notes[j].updatedAt = last.prev[i].updatedAt
            /\ notes[j].dirty = last.prev[i].dirty



\* C30: isSearching is true only while a search is pending: in every state
\* where the query is shorter than 3 characters once trimmed, or where no
\* timer is armed and no request is outstanding at the worker, isSearching is
\* false.
C30_SearchingOnlyWhilePending ==
  (\/ Len(trim(box.query)) < 3
   \/ (box.due = 0 /\ box.pending = 0))
  => ~ box.isSearching

====
